---- MODULE Spec2Model ----
(***************************************************************************)
(* Model of the DailyTracker class of src/scripts/main.js: the day-keyed   *)
(* completion record, the per-day location record, and the midnight        *)
(* rollover monitor (scheduled timer plus 60-second poll).                 *)
(*                                                                         *)
(* Time is counted in ticks of UTC; a day has TicksPerDay ticks.  A day    *)
(* key is modelled by the day number it denotes (the text YYYY-MM-DD is    *)
(* the rendering of that number).  localStorage is a function from keys    *)
(* <<prefix, day>> to stored texts; NoRecord is what getItem answers for   *)
(* a missing key.                                                          *)
(***************************************************************************)
EXTENDS Integers, Sequences, FiniteSets, TLC

\* ---------------------------------------------------------------- bounds
TicksPerDay == 2
MaxTime == 3
NumTasks == 2
MaxRequests == 1
MaxScheduleTasks == 5
MaxTextLen == 2
MaxCount == 100
MaxYears == 2
HashBound == 20
MaxDegrees == 30
MaxWeatherCode == 100
RandomGrid == 32

\* ------------------------------------------------------------- constants
Tasks == 1..NumTasks
TimeZoneOffsets == {-1, 0, 1}
Days == 0..(MaxTime \div TicksPerDay)

\* stored texts: what getItem answers for a missing key, a text JSON.parse rejects,
\* and the text null; the texts written by the program are built by JSONstringify*
NoRecord == [json |-> "absent"]
Corrupt == [json |-> "corrupt"]
NullText == [json |-> "null"]
null == "js-null"
nullSchedule == [isNull |-> TRUE]
undefined == "js-undefined"
NoTimer == -1

defaultCoordinates == "39.697722,-104.895528"
UserCoordinates == {"userPlace"}
\* a second place a user can name, and a stored object without numeric latitude/longitude
Places == UserCoordinates \cup {"otherPlace"}
NoLatitude == "noLatitude"
AllCoordinates == Places \cup {defaultCoordinates, NoLatitude}

\* an id a completion record can hold from an earlier version of the schedule
StaleId == 0
ScheduleTasks == 1..MaxScheduleTasks

TrackerPrefix == "dailyTracker_"
LocationPrefix == "weather_location_"
ForeignKey == <<"theme", 0>>
ForeignValue == [json |-> "object", value |-> "dark"]

StorageKeys == ({TrackerPrefix, LocationPrefix} \X Days) \cup {ForeignKey}

\* The schedule document: a mapping from section to its tasks.
ScheduleDocument == [morning |-> {t \in Tasks : t = 1}, evening |-> {t \in Tasks : t > 1}]
\* schedule documents of every size up to MaxScheduleTasks
DocumentOfSize(n) == [morning |-> 1..(n \div 2), evening |-> ((n \div 2) + 1)..n]
ScheduleDocuments == {DocumentOfSize(n) : n \in 0..MaxScheduleTasks}
\* a body that parses as JSON but is no schedule (the error object of a 404 answer)
OtherDocument == [error |-> "Not Found"]

\* what `await this.loadSchedule()` can meet: the document, a rejected fetch or an
\* unparseable body, a parseable body that is no schedule
FetchOutcomes == {"fetched", "fetchFailed", "fetchedOther"}
\* what the forecast request can meet
ForecastOutcomes == {"ok", "networkError", "notOk", "unparseable", "missingObjects",
                     "missingFields"}
\* what the reverse-geocoding request of getLocationName can meet
ReverseOutcomes == {"named", "failed"}
\* what a forward-geocoding provider can answer
GeocodeOutcomes == {"found", "empty", "notOk", "throws"}

\* prompt() answers: cancelled (null) or a text over a blank and a letter
Chars == {" ", "x"}
RECURSIVE TextsUpTo(_)
TextsUpTo(n) ==
    IF n = 0 THEN {<<>>}
    ELSE TextsUpTo(n - 1) \cup {Append(s, c) : s \in TextsUpTo(n - 1), c \in Chars}
PromptAnswers ==
    {[cancelled |-> TRUE, text |-> <<>>]} \cup
    {[cancelled |-> FALSE, text |-> s] : s \in TextsUpTo(MaxTextLen)}

\* -------------------------------------------------------- pure functions
Range(s) == {s[i] : i \in DOMAIN s}

\* new Date().toISOString().split('T')[0]: the calendar date of the instant in UTC
getCurrentDateKey(t) == t \div TicksPerDay

\* the calendar date of the instant on the user's wall clock (tz ticks ahead of UTC)
LocalDate(t, off) == (t + off) \div TicksPerDay

\* tomorrow.setDate(getDate()+1); setHours(0,0,0,0): the instant of the next local midnight
NextLocalMidnight(t, off) == (LocalDate(t, off) + 1) * TicksPerDay - off

\* JSON.stringify([...set]): the ids in insertion order
JSONstringifyArray(s) == [json |-> "array", items |-> s]
\* JSON.stringify(coordinates)
JSONstringifyCoordinates(c) == [json |-> "object", value |-> c]

JSONparseThrows(text) == text = Corrupt

\* JSON.parse of a stored coordinate text that parses
JSONparse(text) == IF text.json = "null" THEN null ELSE text.value

RECURSIVE Dedupe(_, _)
Dedupe(s, acc) ==
    IF s = <<>> THEN acc
    ELSE Dedupe(Tail(s), IF Head(s) \in Range(acc) THEN acc ELSE Append(acc, Head(s)))

NewSet_Empty(text) == <<>>
\* new Set(JSON.parse(text)) for a text that parses: insertion-ordered, without
\* duplicates; new Set(null) is empty
NewSet(text) == IF text.json = "null" THEN <<>> ELSE Dedupe(text.items, <<>>)

SetDelete_Keeps(s, x) == s
\* Set.prototype.delete
SetDelete(s, x) == SelectSeq(s, LAMBDA y : y # x)
\* Set.prototype.add
SetAdd(s, x) == IF x \in Range(s) THEN s ELSE Append(s, x)

\* the set of ids a stored completion text denotes (what loadCompletedTasks would restore)
StoredAsSet(text) ==
    IF text = NoRecord \/ JSONparseThrows(text) THEN {}
    ELSE Range(NewSet(text))

\* ---------------------------------------------------------------- state
VARIABLES
    now,                \* the clock, in UTC ticks
    tz,                 \* the user's time-zone offset, in ticks
    scheduleSource,     \* the document served at ./assets/schedule.json
    pc,                 \* "unloaded", "loadSchedule", "ready", "initFailed",
                        \* "constructorFailed", or a position inside toggleTask
    storageKey,         \* this.storageKey
    schedule,           \* this.schedule
    completedTasks,     \* this.completedTasks (insertion-ordered)
    currentCoordinates, \* this.currentCoordinates
    localStorage,       \* window.localStorage
    midnightTimer,      \* instant at which the setTimeout of setupMidnightRefresh is due
    pollTimer,          \* whether the setInterval of setupMidnightRefresh is registered
    page,               \* the schedule section and the progress bar of the document
    weatherContent,     \* what #weatherContent shows
    weatherRequests,    \* coordinates of the loadWeather calls awaiting their response
    geocodeRequests,    \* number of geocodeLocation calls awaiting their response
    lastOp,             \* history: the last handler that ran
    toggleRun,          \* history: the current run of consecutive toggles of one id
    lastReset,          \* history: the last rollover reset
    beforeReload,       \* history: completedTasks of the session a reload has just ended
    call                \* the last evaluation of a helper function: name, arguments, result

vars == <<now, tz, scheduleSource, pc, storageKey, schedule, completedTasks,
          currentCoordinates, localStorage, midnightTimer, pollTimer, page,
          weatherContent, weatherRequests, geocodeRequests, lastOp, toggleRun, lastReset,
          beforeReload, call>>

env == <<tz, scheduleSource>>
idle == <<call, beforeReload>>
memory == <<storageKey, schedule, completedTasks, currentCoordinates>>
timers == <<midnightTimer, pollTimer>>
weather == <<weatherContent, weatherRequests, geocodeRequests>>
history == <<toggleRun, lastReset>>

NoRun == [id |-> 0, n |-> 0, stored |-> NoRecord, member |-> FALSE]
NoReset == [by |-> "none", from |-> -1, to |-> -1, hadLocation |-> FALSE]
NoSnapshot == [valid |-> FALSE, key |-> <<TrackerPrefix, 0>>, set |-> <<>>]
\* what a reload ends: the completion set of a session whose init had completed
SnapshotOf(at, key, set) ==
    IF at = "ready" THEN [valid |-> TRUE, key |-> key, set |-> set] ELSE NoSnapshot
NoCall == [fn |-> "none", args |-> <<>>, result |-> <<>>]
\* what a handler met on the network and whether it raised an alert()
NoDetail == [first |-> "", second |-> "", consulted |-> FALSE, alert |-> FALSE]
OpWith(name, id, what, detail) == [op |-> name, id |-> id, what |-> what, detail |-> detail]
Op(name, id, what) == OpWith(name, id, what, NoDetail)
\* a toggle that celebrated: the tier of the animation and the milestone message
Celebrated(id, celebration) ==
    OpWith("toggleTask", id, celebration.tier,
           [NoDetail EXCEPT !.first = celebration.milestone])

Loading == [kind |-> "loading", coord |-> undefined, source |-> "", valid |-> TRUE]
Unavailable == [kind |-> "unavailable", coord |-> undefined, source |-> "", valid |-> TRUE]
\* the rendered snapshot: of which coordinate, from the live or the mock path, and
\* whether its temperatures are numbers
Snapshot(c, source, valid) == [kind |-> "info", coord |-> c, source |-> source, valid |-> valid]
WeatherInfo(c) == Snapshot(c, "live", TRUE)

trackerKey(d) == <<TrackerPrefix, d>>
locationKey(d) == <<LocationPrefix, d>>
sessionDay == storageKey[2]

\* ------------------------------------------------------------- progress
\* a percentage as the exact fraction <<numerator, denominator>>
PctGE(p, n) == p[1] >= n * p[2]
PctEQ(p, n) == p[1] = n * p[2]

IsSchedule(sched) == sched # nullSchedule /\ sched # OtherDocument

\* the task ids renderSchedule puts on the page
RenderedTasks(sched) ==
    IF IsSchedule(sched) THEN UNION {sched[sec] : sec \in DOMAIN sched} ELSE {}

RECURSIVE SumSections(_, _)
SumSections(sched, secs) ==
    IF secs = {} THEN 0
    ELSE LET sec == CHOOSE x \in secs : TRUE
         IN  Cardinality(sched[sec]) + SumSections(sched, secs \ {sec})

TotalTasks_Sections(sched) == Cardinality(DOMAIN sched)
\* Object.values(this.schedule).reduce((total, section) => total + section.tasks.length, 0)
TotalTasks(sched) == SumSections(sched, DOMAIN sched)

\* totalTasks > 0 ? (completedCount / totalTasks) * 100 : 0
Percentage(completedCount, totalTasks) ==
    IF totalTasks > 0 THEN <<completedCount * 100, totalTasks>> ELSE <<0, 1>>

\* the colour chain of updateProgress
Band(percentage) ==
    IF PctEQ(percentage, 100) THEN "complete"
    ELSE IF PctGE(percentage, 75) THEN "high"
    ELSE IF PctGE(percentage, 50) THEN "mid"
    ELSE "low"

CelebrationTier_Band(percentage) ==
    IF PctGE(percentage, 75) THEN "mega"
    ELSE IF PctGE(percentage, 50) THEN "big"
    ELSE "basic"
\* the tier chain of celebrateTaskCompletion
CelebrationTier(percentage) ==
    IF PctGE(percentage, 80) THEN "mega"
    ELSE IF PctGE(percentage, 50) THEN "big"
    ELSE "basic"

Milestone_AtLeast(percentage) ==
    IF PctGE(percentage, 100) THEN "perfect"
    ELSE IF PctGE(percentage, 80) THEN "amazing"
    ELSE IF PctGE(percentage, 50) THEN "great"
    ELSE ""
\* the milestone chain of celebrateTaskCompletion: the type of the message, "" for none
Milestone(percentage) ==
    IF PctEQ(percentage, 50) THEN "great"
    ELSE IF PctEQ(percentage, 80) THEN "amazing"
    ELSE IF PctEQ(percentage, 100) THEN "perfect"
    ELSE ""

\* celebrateTaskCompletion: the animation and the message it shows
celebrateTaskCompletion(completedCount, totalTasks) ==
    LET percentage == Percentage(completedCount, totalTasks)
    IN  [tier |-> CelebrationTier(percentage), milestone |-> Milestone(percentage)]

NoProgress == [completedCount |-> 0, totalTasks |-> 0, percentage |-> <<0, 1>>,
               band |-> "none"]
\* the document as served: an empty schedule container and an untouched progress bar
InitialPage == [checked |-> {}, progress |-> NoProgress]

\* createScheduleSection: section.tasks.forEach on a value without tasks
renderScheduleThrows(sched) == sched = OtherDocument

\* renderSchedule: the ids shown checked afterwards
renderSchedule(sched, set, checked) ==
    IF sched = nullSchedule THEN checked ELSE RenderedTasks(sched) \cap Range(set)

\* updateProgress: the progress bar afterwards
updateProgress(sched, set, progress) ==
    IF sched = nullSchedule THEN progress
    ELSE LET percentage == Percentage(Len(set), TotalTasks(sched))
         IN  [completedCount |-> Len(set), totalTasks |-> TotalTasks(sched),
              percentage |-> percentage, band |-> Band(percentage)]

\* ----------------------------------------------------------------- init
InitialStorage ==
    { [k \in StorageKeys |->
          IF k = ForeignKey THEN ForeignValue
          ELSE IF k = trackerKey(0) THEN c
          ELSE IF k = locationKey(0) THEN l
          ELSE NoRecord] :
      c \in {NoRecord, Corrupt}, l \in {NoRecord, Corrupt, NullText} }

Unloaded ==
    /\ now = 0
    /\ pc = "unloaded"
    /\ storageKey = trackerKey(0)
    /\ schedule = nullSchedule
    /\ completedTasks = <<>>
    /\ currentCoordinates = undefined
    /\ midnightTimer = NoTimer
    /\ pollTimer = FALSE
    /\ page = InitialPage
    /\ weatherContent = Loading
    /\ weatherRequests = {}
    /\ geocodeRequests = 0
    /\ lastOp = Op("none", 0, "")
    /\ toggleRun = NoRun
    /\ lastReset = NoReset
    /\ beforeReload = NoSnapshot
    /\ call = NoCall

Init ==
    /\ Unloaded
    /\ tz \in TimeZoneOffsets
    /\ scheduleSource = ScheduleDocument
    /\ localStorage \in InitialStorage

\* ------------------------------------------------------ storage helpers
getItem(store, k) == store[k]
setItem(store, k, text) == [store EXCEPT ![k] = text]
removeItem(store, k) == [store EXCEPT ![k] = NoRecord]

\* getStoredCoordinates, for a stored text that parses
getStoredCoordinates(store, t) ==
    LET stored == getItem(store, locationKey(getCurrentDateKey(t)))
    IN  IF stored # NoRecord THEN JSONparse(stored) ELSE defaultCoordinates

\* the storage effect of setStoredCoordinates
setStoredCoordinates(store, t, c) ==
    setItem(store, locationKey(getCurrentDateKey(t)), JSONstringifyCoordinates(c))

saveCompletedTasks_NoWrite(store, key, set) == store
\* the storage effect of saveCompletedTasks
saveCompletedTasks(store, key, set) == setItem(store, key, JSONstringifyArray(set))

resetLocationToDefault_AnyPrefix(store, t) ==
    [k \in DOMAIN store |->
        IF k[2] # getCurrentDateKey(t) /\ k[1] # ForeignKey[1]
        THEN NoRecord ELSE store[k]]
\* the storage effect of resetLocationToDefault: every key with the location prefix
\* other than today's is removed
resetLocationToDefault(store, t) ==
    [k \in DOMAIN store |->
        IF k[1] = LocationPrefix /\ k # locationKey(getCurrentDateKey(t))
        THEN NoRecord ELSE store[k]]

\* ---------------------------------------------------------------- clock
Tick ==
    /\ now < MaxTime
    /\ now' = now + 1
    /\ UNCHANGED <<env, idle, pc, memory, localStorage, timers, page, weather, lastOp, history>>

\* ------------------------------------------------------------- page load
\* DOMContentLoaded: new DailyTracker().  The constructor runs init() up to its
\* first await; a JSON.parse failure in getStoredCoordinates leaves the page without
\* a tracker.
constructor ==
    /\ pc = "unloaded"
    /\ schedule' = nullSchedule
    /\ completedTasks' = <<>>
    /\ storageKey' = trackerKey(getCurrentDateKey(now))
    /\ LET stored == getItem(localStorage, locationKey(getCurrentDateKey(now)))
       IN  IF stored # NoRecord /\ JSONparseThrows(stored)
           THEN /\ currentCoordinates' = undefined
                /\ pc' = "constructorFailed"
           ELSE /\ currentCoordinates' = getStoredCoordinates(localStorage, now)
                /\ pc' = "loadSchedule"
    /\ page' = InitialPage
    /\ lastOp' = Op("constructor", 0, "")
    /\ toggleRun' = NoRun
    /\ UNCHANGED <<now, env, idle, localStorage, timers, weather, lastReset>>

\* loadSchedule: response.json() is assigned whatever the status of the response
loadSchedule(outcome, source) ==
    CASE outcome = "fetched" -> source
      [] outcome = "fetchFailed" -> nullSchedule
      [] outcome = "fetchedOther" -> OtherDocument

\* the start of loadWeather: destructuring a null coordinate throws inside its try
loadWeatherContent(c, content) == IF c = null THEN Unavailable ELSE content
loadWeatherRequests(c, requests) == IF c = null THEN requests ELSE requests \cup {c}

\* init() from the completion of `await this.loadSchedule()` to its end:
\* loadCompletedTasks, renderSchedule, updateDateDisplay, loadWeather, loadDailyQuote,
\* updateProgress, setupEventListeners, setupMidnightRefresh
init(outcome) ==
    /\ pc = "loadSchedule"
    /\ schedule' = loadSchedule(outcome, scheduleSource)
    /\ LET saved == getItem(localStorage, storageKey)
       IN  IF saved # NoRecord /\ JSONparseThrows(saved)
           THEN \* loadCompletedTasks throws: init() is rejected here
                /\ pc' = "initFailed"
                /\ UNCHANGED <<completedTasks, timers, page, weather>>
           ELSE /\ completedTasks' = IF saved # NoRecord THEN NewSet(saved) ELSE completedTasks
                /\ IF renderScheduleThrows(schedule')
                   THEN \* renderSchedule throws: init() is rejected here
                        /\ pc' = "initFailed"
                        /\ UNCHANGED <<timers, page, weather>>
                   ELSE /\ page' = [checked |-> renderSchedule(schedule', completedTasks',
                                                               page.checked),
                                    progress |-> updateProgress(schedule', completedTasks',
                                                                page.progress)]
                        /\ weatherContent' = loadWeatherContent(currentCoordinates, Loading)
                        /\ weatherRequests' = loadWeatherRequests(currentCoordinates, {})
                        /\ geocodeRequests' = 0
                        \* setupMidnightRefresh
                        /\ midnightTimer' = NextLocalMidnight(now, tz)
                        /\ pollTimer' = TRUE
                        /\ pc' = "ready"
    /\ lastOp' = Op("init", 0, outcome)
    /\ toggleRun' = NoRun
    /\ beforeReload' = NoSnapshot
    /\ UNCHANGED <<now, env, call, storageKey, currentCoordinates, localStorage, lastReset>>

\* the user reloads the page
reloadPage ==
    /\ pc # "unloaded"
    /\ pc' = "unloaded"
    /\ midnightTimer' = NoTimer
    /\ pollTimer' = FALSE
    /\ page' = InitialPage
    /\ weatherContent' = Loading
    /\ weatherRequests' = {}
    /\ geocodeRequests' = 0
    /\ schedule' = nullSchedule
    /\ completedTasks' = <<>>
    /\ currentCoordinates' = undefined
    /\ lastOp' = Op("reloadPage", 0, "")
    /\ toggleRun' = NoRun
    /\ beforeReload' = SnapshotOf(pc, storageKey, completedTasks)
    /\ UNCHANGED <<now, env, call, storageKey, localStorage, lastReset>>

\* ------------------------------------------------------ completion tracker
\* the branch of toggleTask on completedTasks.has(taskId): the set afterwards
ToggleSet(set, taskId) ==
    IF taskId \in Range(set) THEN SetDelete(set, taskId) ELSE SetAdd(set, taskId)
\* ... and the ids shown checked afterwards
ToggleChecked(checked, set, taskId) ==
    IF taskId \in Range(set) THEN checked \ {taskId} ELSE checked \cup {taskId}

toggleTask(taskId) ==
    /\ pc = "ready"
    /\ taskId \in RenderedTasks(schedule)
    /\ completedTasks' = ToggleSet(completedTasks, taskId)
    /\ localStorage' = saveCompletedTasks(localStorage, storageKey, completedTasks')
    /\ page' = [checked |-> ToggleChecked(page.checked, completedTasks, taskId),
                progress |-> updateProgress(schedule, completedTasks', page.progress)]
    /\ lastOp' = IF taskId \in Range(completedTasks)
                 THEN Op("toggleTask", taskId, "")
                 ELSE Celebrated(taskId, celebrateTaskCompletion(Len(completedTasks'),
                                                                 TotalTasks(schedule)))
    /\ toggleRun' = IF toggleRun.id = taskId /\ toggleRun.n = 1
                    THEN [toggleRun EXCEPT !.n = 2]
                    ELSE [id |-> taskId, n |-> 1,
                          stored |-> getItem(localStorage, storageKey),
                          member |-> taskId \in Range(completedTasks)]
    /\ UNCHANGED <<now, env, idle, pc, storageKey, schedule, currentCoordinates, timers,
                   weather, lastReset>>

\* toggleTask statement by statement.  Lines 145-157: the set and the page change
toggleTask_mutate(taskId) ==
    /\ pc = "ready"
    /\ taskId \in RenderedTasks(schedule)
    /\ completedTasks' = ToggleSet(completedTasks, taskId)
    /\ page' = [page EXCEPT !.checked = ToggleChecked(page.checked, completedTasks, taskId)]
    /\ pc' = IF taskId \in Range(completedTasks)
             THEN "toggleTask:save" ELSE "toggleTask:celebrate"
    /\ lastOp' = Op("toggleTask", taskId, "")
    /\ toggleRun' = NoRun
    /\ UNCHANGED <<now, env, idle, storageKey, schedule, currentCoordinates, localStorage,
                   timers, weather, lastReset>>

\* line 160: celebrateTaskCompletion computes its percentage from completedTasks
toggleTask_celebrate ==
    /\ pc = "toggleTask:celebrate"
    /\ pc' = "toggleTask:save"
    /\ lastOp' = Celebrated(lastOp.id, celebrateTaskCompletion(Len(completedTasks),
                                                               TotalTasks(schedule)))
    /\ UNCHANGED <<now, env, idle, memory, localStorage, timers, page, weather, history>>

\* line 163: saveCompletedTasks
toggleTask_save ==
    /\ pc = "toggleTask:save"
    /\ localStorage' = saveCompletedTasks(localStorage, storageKey, completedTasks)
    /\ pc' = "toggleTask:updateProgress"
    /\ UNCHANGED <<now, env, idle, memory, timers, page, weather, lastOp, history>>

\* line 164: updateProgress
toggleTask_updateProgress ==
    /\ pc = "toggleTask:updateProgress"
    /\ page' = [page EXCEPT !.progress = updateProgress(schedule, completedTasks,
                                                        page.progress)]
    /\ pc' = "ready"
    /\ UNCHANGED <<now, env, idle, memory, localStorage, timers, weather, lastOp, history>>

resetDay_KeepsRecord(confirmed) ==
    /\ pc = "ready"
    /\ IF confirmed
       THEN /\ completedTasks' = <<>>
            /\ page' = [checked |-> renderSchedule(schedule, <<>>, page.checked),
                        progress |-> updateProgress(schedule, <<>>, page.progress)]
            /\ UNCHANGED localStorage
       ELSE UNCHANGED <<completedTasks, localStorage, page>>
    /\ lastOp' = Op("resetDay", 0, IF confirmed THEN "confirmed" ELSE "declined")
    /\ toggleRun' = NoRun
    /\ UNCHANGED <<now, env, idle, pc, storageKey, schedule, currentCoordinates, timers,
                   weather, lastReset>>

resetDay(confirmed) ==
    /\ pc = "ready"
    /\ IF confirmed
       THEN /\ completedTasks' = <<>>
            /\ localStorage' = removeItem(localStorage, storageKey)
            /\ page' = [checked |-> renderSchedule(schedule, <<>>, page.checked),
                        progress |-> updateProgress(schedule, <<>>, page.progress)]
       ELSE UNCHANGED <<completedTasks, localStorage, page>>
    /\ lastOp' = Op("resetDay", 0, IF confirmed THEN "confirmed" ELSE "declined")
    /\ toggleRun' = NoRun
    /\ UNCHANGED <<now, env, idle, pc, storageKey, schedule, currentCoordinates, timers,
                   weather, lastReset>>

\* ------------------------------------------------------- rollover monitor
\* resetLocationToDefault(); window.location.reload()
ResetAndReload(by) ==
    /\ localStorage' = resetLocationToDefault(localStorage, now)
    /\ currentCoordinates' = defaultCoordinates
    /\ pc' = "unloaded"
    /\ midnightTimer' = NoTimer
    /\ pollTimer' = FALSE
    /\ page' = InitialPage
    /\ weatherContent' = Loading
    /\ weatherRequests' = {}
    /\ geocodeRequests' = 0
    /\ lastReset' = [by |-> by, from |-> sessionDay, to |-> getCurrentDateKey(now),
                     hadLocation |-> getItem(localStorage, locationKey(sessionDay)).json = "object"]
    /\ toggleRun' = NoRun
    \* the reload discards the page and its tracker
    /\ schedule' = nullSchedule
    /\ completedTasks' = <<>>
    /\ beforeReload' = SnapshotOf(pc, storageKey, completedTasks)
    /\ UNCHANGED <<now, env, call, storageKey>>

\* the setTimeout callback of setupMidnightRefresh
midnightTimeout ==
    /\ midnightTimer # NoTimer
    /\ now >= midnightTimer
    /\ lastOp' = Op("midnightTimeout", 0, "reset")
    /\ ResetAndReload("timeout")

\* the setInterval callback of setupMidnightRefresh
pollInterval ==
    /\ pollTimer
    /\ IF getCurrentDateKey(now) # sessionDay
       THEN /\ lastOp' = Op("pollInterval", 0, "reset")
            /\ ResetAndReload("poll")
       ELSE /\ lastOp' = Op("pollInterval", 0, "same")
            /\ toggleRun' = NoRun
            /\ UNCHANGED <<now, env, idle, pc, memory, localStorage, timers, page, weather,
                           lastReset>>

\* ----------------------------------------------------------------- weather
\* whether the coordinate object carries numeric latitude and longitude
IsNumeric(c) == c # NoLatitude

\* getLocationName: a failed reverse lookup falls back to lat.toFixed(2), which
\* throws for a latitude that is no number
getLocationNameThrows(c, reverse) == reverse = "failed" /\ ~IsNumeric(c)

\* whether the try block of fetchWeatherData returns a snapshot: the response is ok,
\* its body parses and has the `current` and `daily` objects
LivePathReturns(c, forecast, reverse) ==
    /\ forecast \in {"ok", "missingFields"}
    /\ ~getLocationNameThrows(c, reverse)

\* fetchWeatherData resolves, or rejects because getMockWeatherData did
fetchWeatherDataThrows(c, forecast, reverse) ==
    /\ ~LivePathReturns(c, forecast, reverse)
    /\ getLocationNameThrows(c, reverse)

\* the snapshot fetchWeatherData resolves to: Math.round of a missing field is NaN
fetchWeatherData(c, forecast, reverse) ==
    IF LivePathReturns(c, forecast, reverse)
    THEN Snapshot(c, "live", forecast = "ok")
    ELSE Snapshot(c, "mock", TRUE)

\* what loadWeather renders once fetchWeatherData has settled
loadWeatherRender(c, forecast, reverse) ==
    IF fetchWeatherDataThrows(c, forecast, reverse) THEN Unavailable
    ELSE fetchWeatherData(c, forecast, reverse)

\* a loadWeather call resumes after `await this.fetchWeatherData(...)` and renders
weatherResponse(c, forecast, reverse) ==
    /\ c \in weatherRequests
    /\ weatherRequests' = weatherRequests \ {c}
    /\ weatherContent' = loadWeatherRender(c, forecast, reverse)
    /\ lastOp' = OpWith("weatherResponse", 0, c,
                        [NoDetail EXCEPT !.first = forecast, !.second = reverse])
    /\ toggleRun' = NoRun
    /\ UNCHANGED <<now, env, idle, pc, memory, localStorage, timers, page, geocodeRequests,
                   lastReset>>

\* the click listener loadWeather puts on #weatherInfo
WeatherClickable(content) == content.kind = "info"

Trim_Identity(text) == text
\* String.prototype.trim
RECURSIVE Trim(_)
Trim(text) ==
    IF text = <<>> THEN text
    ELSE IF Head(text) = " " THEN Trim(Tail(text))
    ELSE IF text[Len(text)] = " " THEN Trim(SubSeq(text, 1, Len(text) - 1))
    ELSE text

\* newLocation && newLocation.trim()
AnswerAccepted(answer) ==
    ~answer.cancelled /\ answer.text # <<>> /\ Trim(answer.text) # <<>>

\* history: what the user answered
AnswerShape(answer) ==
    IF answer.cancelled THEN "cancel"
    ELSE IF answer.text = <<>> THEN "empty"
    ELSE IF \A i \in DOMAIN answer.text : answer.text[i] = " " THEN "spaces"
    ELSE "text"

\* a click on #weatherInfo: prompt(), then geocodeLocation for a non-blank answer
showLocationDialog(answer) ==
    /\ pc = "ready"
    /\ WeatherClickable(weatherContent)
    /\ IF AnswerAccepted(answer)
       THEN /\ geocodeRequests < MaxRequests
            /\ geocodeRequests' = geocodeRequests + 1
       ELSE UNCHANGED geocodeRequests
    /\ lastOp' = Op("showLocationDialog", 0, AnswerShape(answer))
    /\ toggleRun' = NoRun
    /\ UNCHANGED <<now, env, idle, pc, memory, localStorage, timers, page, weatherContent,
                   weatherRequests, lastReset>>

geocodeLocation_NoFallback(primary, fallback, place) ==
    IF primary = "found" THEN place ELSE null
\* geocodeLocation: the primary provider, then the fallback, then null
geocodeLocation(primary, fallback, place) ==
    IF primary = "found" THEN place
    ELSE IF fallback = "found" THEN place
    ELSE null

\* showLocationDialog resumes after `await this.geocodeLocation(...)`
geocodeResponse(primary, fallback, place) ==
    /\ geocodeRequests > 0
    /\ geocodeRequests' = geocodeRequests - 1
    /\ LET coordinates == geocodeLocation(primary, fallback, place)
       IN  /\ IF coordinates # null
              THEN /\ localStorage' = setStoredCoordinates(localStorage, now, coordinates)
                   /\ currentCoordinates' = coordinates
                   /\ weatherRequests' = loadWeatherRequests(coordinates, weatherRequests)
              ELSE UNCHANGED <<localStorage, currentCoordinates, weatherRequests>>
           /\ lastOp' = OpWith("geocodeResponse", 0, coordinates,
                               [first |-> primary, second |-> fallback,
                                consulted |-> primary # "found",
                                alert |-> coordinates = null])
    /\ toggleRun' = NoRun
    /\ UNCHANGED <<now, env, idle, pc, storageKey, schedule, completedTasks, timers, page,
                   weatherContent, lastReset>>

Next ==
    \/ Tick
    \/ constructor
    \/ \E outcome \in FetchOutcomes : init(outcome)
    \/ reloadPage
    \/ \E taskId \in Tasks : toggleTask(taskId)
    \/ \E confirmed \in BOOLEAN : resetDay(confirmed)
    \/ midnightTimeout
    \/ pollInterval
    \/ \E c \in UserCoordinates \cup {defaultCoordinates} : weatherResponse(c, "ok", "named")
    \/ \E answer \in PromptAnswers : showLocationDialog(answer)
    \/ \E primary \in {"found", "throws"}, place \in UserCoordinates :
           geocodeResponse(primary, "throws", place)

Spec == Init /\ [][Next]_vars

\* the scheduling of the page: the schedule fetch settles, a loaded page is
\* constructed, and registered timers fire
FairSpec ==
    /\ Spec
    /\ WF_vars(constructor)
    /\ WF_vars(\E outcome \in FetchOutcomes : init(outcome))
    /\ WF_vars(midnightTimeout)
    /\ WF_vars(pollInterval)

\* ------------------------------------------------------------ step shapes
ToggleStep(t) == lastOp'.op = "toggleTask" /\ lastOp'.id = t /\ now' = now
ResetDayStep(what) == lastOp'.op = "resetDay" /\ lastOp'.what = what /\ now' = now
RolloverResetStep == pc # "unloaded" /\ pc' = "unloaded" /\ lastOp'.what = "reset"
ConstructorStep == pc = "unloaded" /\ pc' # "unloaded"
InitStep == pc = "loadSchedule" /\ pc' # "loadSchedule" /\ lastOp'.op = "init"

\* ------------------------------------------------------------------- C1
\* C1: a toggleTask(taskId) step flips the membership of taskId in completedTasks,
\* leaves the membership of every other id alone, and leaves under storageKey a
\* record that reads back as completedTasks; in every state of a started session
\* the stored record, read as a set, equals completedTasks.
C1_WriteThrough ==
    [][/\ \A t \in Tasks : ToggleStep(t) =>
            /\ (t \in Range(completedTasks')) <=> (t \notin Range(completedTasks))
            /\ \A u \in Tasks \ {t} :
                 (u \in Range(completedTasks')) <=> (u \in Range(completedTasks))
            /\ StoredAsSet(getItem(localStorage', storageKey')) = Range(completedTasks')
       /\ pc' = "ready" =>
            StoredAsSet(getItem(localStorage', storageKey')) = Range(completedTasks')]_vars

C1_Witness ==
    /\ lastOp.op = "toggleTask"
    /\ Len(completedTasks) = 2
    /\ getItem(localStorage, storageKey) = JSONstringifyArray(completedTasks)

\* ------------------------------------------------------------------- C2
\* C2: when the record under the session's completion key cannot be parsed, init
\* still completes with an empty completedTasks and the rollover monitor started.
C2_CorruptRecordLoadsEmpty ==
    (pc \in {"ready", "initFailed"} /\ JSONparseThrows(getItem(localStorage, storageKey)))
        => /\ pc = "ready"
           /\ completedTasks = <<>>
           /\ pollTimer
           /\ midnightTimer # NoTimer

\* ------------------------------------------------------------------- C3
\* C3: a session started on day D with a completion record and a user-chosen
\* location record for D: the poll check resets and reloads it once the day key
\* differs; the next session starts with the default coordinate and the completion
\* set stored under its own day; the completion record of D is untouched.
C3_PollRollover ==
    [][/\ (lastOp'.op = "pollInterval" /\ now' = now /\ pollTimer
            /\ getCurrentDateKey(now) # sessionDay)
          => /\ pc' = "unloaded"
             /\ getItem(localStorage', storageKey) = getItem(localStorage, storageKey)
       /\ (ConstructorStep /\ lastOp.op = "pollInterval" /\ lastOp.what = "reset"
            /\ lastReset.hadLocation
            /\ getItem(localStorage, trackerKey(lastReset.from)).json = "array")
          => currentCoordinates' = defaultCoordinates
       /\ (InitStep /\ pc' = "ready")
          => completedTasks' = IF getItem(localStorage, storageKey) = NoRecord THEN <<>>
                               ELSE NewSet(getItem(localStorage, storageKey))]_vars

\* ------------------------------------------------------------------- C4
\* C4: a rollover reset removes every location record of a day other than the
\* current day key, keeps the current day's location record, sets
\* currentCoordinates to the default, and leaves every key without the location
\* prefix (completion records, foreign keys) as it was.
C4_ResetFrame ==
    [][RolloverResetStep =>
        /\ \A d \in Days : d # getCurrentDateKey(now)
              => getItem(localStorage', locationKey(d)) = NoRecord
        /\ getItem(localStorage', locationKey(getCurrentDateKey(now)))
              = getItem(localStorage, locationKey(getCurrentDateKey(now)))
        /\ currentCoordinates' = defaultCoordinates
        /\ \A k \in StorageKeys : k[1] # LocationPrefix
              => getItem(localStorage', k) = getItem(localStorage, k)]_vars

C4_Witness ==
    /\ pc = "unloaded"
    /\ lastOp.what = "reset"
    /\ lastReset.hadLocation
    /\ lastReset.from # lastReset.to
    /\ getItem(localStorage, locationKey(lastReset.from)) = NoRecord
    /\ getItem(localStorage, trackerKey(lastReset.from)).json = "array"
    /\ currentCoordinates = defaultCoordinates

\* ------------------------------------------------------------------- C5
\* C5: the day key the constructor computes is the calendar date of the user's
\* local time zone.
C5_LocalDayKey ==
    [][(ConstructorStep /\ lastOp'.op = "constructor") => storageKey'[2] = LocalDate(now, tz)]_vars

\* ------------------------------------------------------------------- C6
\* C6: when the scheduled midnight timer has reset the page, the next session has
\* a day key different from the previous session's, the previous day's location
\* record is gone, and the session starts with the default coordinate.
C6_MidnightTimerRollover ==
    [][(ConstructorStep /\ lastOp.op = "midnightTimeout")
        => /\ storageKey'[2] # lastReset.from
           /\ getItem(localStorage, locationKey(lastReset.from)) = NoRecord
           /\ currentCoordinates' = defaultCoordinates]_vars

\* ------------------------------------------------------------------- C7
\* C7: a rollover reset fires only when the day key differs from the session's,
\* and never a second time for the day key the previous reset already moved to.
C7_ResetOncePerDayChange ==
    [][RolloverResetStep =>
        /\ getCurrentDateKey(now) # sessionDay
        /\ getCurrentDateKey(now) # lastReset.to]_vars

\* ------------------------------------------------------------------- C8
\* C8: once the page has loaded, a session whose day key differs from the current
\* day key is eventually reset and reloaded against the current day key.
C8_RolloverEventually ==
    (pc # "unloaded" /\ getCurrentDateKey(now) # sessionDay)
        ~> (pc \in {"loadSchedule", "ready"} /\ getCurrentDateKey(now) = sessionDay)

\* ------------------------------------------------------------------- C9
\* C9 (as stated): after two toggles of one id in a row the id has its original
\* membership and the stored text equals the text stored before the first toggle.
C9_DoubleToggleSameText ==
    toggleRun.n = 2 =>
        /\ (toggleRun.id \in Range(completedTasks)) <=> toggleRun.member
        /\ getItem(localStorage, storageKey) = toggleRun.stored

\* C9 (amended): after two toggles of one id in a row the id has its original
\* membership and the stored record reads back as the same set as the record
\* stored before the first toggle.
C9_DoubleToggleSameSet ==
    toggleRun.n = 2 =>
        /\ (toggleRun.id \in Range(completedTasks)) <=> toggleRun.member
        /\ StoredAsSet(getItem(localStorage, storageKey)) = StoredAsSet(toggleRun.stored)

C9_Witness ==
    /\ toggleRun.n = 2
    /\ toggleRun.member
    /\ Len(completedTasks) = 2
    /\ getItem(localStorage, storageKey) # toggleRun.stored

\* ------------------------------------------------------------------ C10
\* C10: a confirmed resetDay leaves completedTasks empty and no record under
\* storageKey, and a load that finds no record yields the empty set; a declined
\* resetDay changes neither completedTasks nor localStorage.
C10_ResetDay ==
    [][/\ ResetDayStep("confirmed") =>
            /\ completedTasks' = <<>>
            /\ getItem(localStorage', storageKey') = NoRecord
            /\ StoredAsSet(getItem(localStorage', storageKey')) = {}
       /\ ResetDayStep("declined") => UNCHANGED <<completedTasks, localStorage>>
       /\ (InitStep /\ pc' = "ready" /\ getItem(localStorage, storageKey) = NoRecord)
            => completedTasks' = <<>>]_vars

C10_Witness ==
    /\ lastOp.op = "resetDay"
    /\ lastOp.what = "confirmed"
    /\ completedTasks = <<>>
    /\ getItem(localStorage, storageKey) = NoRecord
    /\ \E d \in Days : d # sessionDay /\ getItem(localStorage, trackerKey(d)).json = "array"


\* ------------------------------------------------ the progress indicator
\* Sessions over schedules of every size, started with or without a completion
\* record that an earlier version of the schedule left behind.
ProgressStorage ==
    { [k \in StorageKeys |->
          IF k = ForeignKey THEN ForeignValue
          ELSE IF k = trackerKey(0) THEN c
          ELSE NoRecord] :
      c \in {NoRecord, JSONstringifyArray(<<StaleId>>)} }

ProgressInit ==
    /\ Unloaded
    /\ tz = 0
    /\ scheduleSource \in ScheduleDocuments
    /\ localStorage \in ProgressStorage

ProgressNext ==
    \/ constructor
    \/ \E outcome \in FetchOutcomes : init(outcome)
    \/ reloadPage
    \/ \E taskId \in ScheduleTasks : toggleTask(taskId)
    \/ \E confirmed \in BOOLEAN : resetDay(confirmed)

ProgressSpec == ProgressInit /\ [][ProgressNext]_vars

\* a session whose schedule loaded and whose handlers are at rest
ScheduleShown == pc = "ready" /\ IsSchedule(schedule)

\* ------------------------------------------------------------------ C19
\* C19: the percentage on the progress bar is completedCount / totalTaskCount * 100,
\* where totalTaskCount is the sum of the task counts of the sections and
\* completedCount the size of completedTasks; it is 0 when totalTaskCount is 0, 0 for
\* no completed task and 100 when completedCount = totalTaskCount > 0.
C19_Percentage ==
    ScheduleShown =>
        LET p == page.progress
            N == Cardinality(schedule.morning) + Cardinality(schedule.evening)
            c == Cardinality(Range(completedTasks))
        IN  /\ p.totalTasks = N
            /\ p.completedCount = c
            /\ N = 0 => PctEQ(p.percentage, 0)
            /\ N > 0 => p.percentage[1] * N = c * 100 * p.percentage[2]
            /\ c = 0 => PctEQ(p.percentage, 0)
            /\ (N > 0 /\ c = N) => PctEQ(p.percentage, 100)

C19_Witness ==
    /\ ScheduleShown
    /\ lastOp.op = "toggleTask"
    /\ page.progress.totalTasks = 4
    /\ page.progress.completedCount = 3
    /\ page.progress.percentage = <<300, 4>>

\* ------------------------------------------------------------------ C12
\* C12: whenever a schedule is shown, completedTasks is a subset of the task ids of
\* the schedule, its size is at most the number of tasks, and the percentage on the
\* progress bar lies within 0..100, also when the stored record holds an id the
\* schedule no longer has.
C12_CompletionWithinSchedule ==
    ScheduleShown =>
        /\ Range(completedTasks) \subseteq RenderedTasks(schedule)
        /\ Len(completedTasks) <= TotalTasks(schedule)
        /\ PctGE(page.progress.percentage, 0)
        /\ page.progress.percentage[1] <= 100 * page.progress.percentage[2]

\* ------------------------------------------------------------------ C20
\* C20: the band on the progress bar is low for a percentage below 50, mid from 50
\* to below 75, high from 75 to below 100 and complete at 100, whatever the counts;
\* exactly one of the four applies.
C20_Bands ==
    ScheduleShown =>
        LET p == page.progress.percentage
            b == page.progress.band
        IN  /\ b \in {"low", "mid", "high", "complete"}
            /\ b = "low" <=> ~PctGE(p, 50)
            /\ b = "mid" <=> (PctGE(p, 50) /\ ~PctGE(p, 75))
            /\ b = "high" <=> (PctGE(p, 75) /\ ~PctGE(p, 100))
            /\ b = "complete" <=> PctEQ(p, 100)

\* ------------------------------------------- toggleTask, statement by statement
\* The same sessions with toggleTask taken one statement at a time; nothing else
\* can run between the statements of a handler.
StepNext ==
    \/ constructor
    \/ \E outcome \in FetchOutcomes : init(outcome)
    \/ \E taskId \in ScheduleTasks : toggleTask_mutate(taskId)
    \/ toggleTask_celebrate
    \/ toggleTask_save
    \/ toggleTask_updateProgress
    \/ \E confirmed \in BOOLEAN : resetDay(confirmed)

StepSpec == ProgressInit /\ [][StepNext]_vars

\* ------------------------------------------------------------------ C11
\* C11: at every statement of toggleTask that computes a percentage from
\* completedTasks (celebrateTaskCompletion, updateProgress), the mutation has already
\* been written: the stored record read as a set equals completedTasks, and the ids
\* shown checked on the page are the ids of the schedule that storage holds.
C11_PersistedBeforePercentage ==
    pc \in {"toggleTask:celebrate", "toggleTask:updateProgress"} =>
        /\ StoredAsSet(getItem(localStorage, storageKey)) = Range(completedTasks)
        /\ page.checked =
               StoredAsSet(getItem(localStorage, storageKey)) \cap RenderedTasks(schedule)

\* ------------------------------------------------------------------ C18
\* C18: when the schedule source is missing or its body cannot be parsed (and the
\* stored completion record parses), init runs to its end: no task is rendered, the
\* weather widget is loading or shows its placeholder, and both timers of the
\* rollover monitor are registered.
C18_MissingScheduleKeepsPage ==
    [][(/\ InitStep
        /\ lastOp'.what \in {"fetchFailed", "fetchedOther"}
        /\ ~JSONparseThrows(getItem(localStorage, storageKey)))
       => /\ pc' = "ready"
          /\ page'.checked = {}
          /\ weatherContent' = Unavailable \/ weatherRequests' # {}
          /\ pollTimer'
          /\ midnightTimer' # NoTimer]_vars

\* ------------------------------------------------------ the weather panel
\* Sessions of one day in which every network outcome of the forecast, the reverse
\* lookup and the two geocoding providers can happen, started with no stored
\* location, with a stored null, or with a stored object without a latitude.
WeatherStorage ==
    { [k \in StorageKeys |->
          IF k = ForeignKey THEN ForeignValue
          ELSE IF k = locationKey(0) THEN l
          ELSE NoRecord] :
      l \in {NoRecord, NullText, JSONstringifyCoordinates(NoLatitude)} }

WeatherInit ==
    /\ Unloaded
    /\ tz = 0
    /\ scheduleSource = ScheduleDocument
    /\ localStorage \in WeatherStorage

WeatherNext ==
    \/ constructor
    \/ \E outcome \in FetchOutcomes : init(outcome)
    \/ reloadPage
    \/ \E c \in AllCoordinates, forecast \in ForecastOutcomes, reverse \in ReverseOutcomes :
           weatherResponse(c, forecast, reverse)
    \/ \E answer \in PromptAnswers : showLocationDialog(answer)
    \/ \E primary \in GeocodeOutcomes, fallback \in GeocodeOutcomes,
          place \in Places \cup {NoLatitude} :
           geocodeResponse(primary, fallback, place)

WeatherSpec == WeatherInit /\ [][WeatherNext]_vars

WeatherResponseStep == lastOp'.op = "weatherResponse" /\ weatherRequests' # weatherRequests
GeocodeResponseStep == lastOp'.op = "geocodeResponse" /\ geocodeRequests' < geocodeRequests
DialogStep(what) == lastOp'.op = "showLocationDialog" /\ lastOp'.what = what

\* ------------------------------------------------------------------ C13
\* C13: once no weather request and no geocoding request is in flight, a weather
\* panel that shows a snapshot shows the snapshot of currentCoordinates, in whatever
\* order the responses arrived.
C13_LatestRequestWins ==
    (/\ pc = "ready"
     /\ weatherRequests = {}
     /\ geocodeRequests = 0
     /\ weatherContent.kind = "info")
        => weatherContent.coord = currentCoordinates

\* ------------------------------------------------------------------ C14
\* C14: a loadWeather whose network calls have settled leaves the session running
\* with a snapshot or the placeholder on the panel; when the forecast request failed
\* in any way (network error, status not ok, body unparseable or without the
\* expected objects or fields) the snapshot is the mock one, and the placeholder
\* appears only when the mock path threw as well.
C14_FailureYieldsMock ==
    [][WeatherResponseStep =>
          /\ pc' = pc
          /\ weatherContent'.kind \in {"info", "unavailable"}
          /\ lastOp'.detail.first # "ok" =>
                \/ weatherContent' = Snapshot(lastOp'.what, "mock", TRUE)
                \/ /\ weatherContent' = Unavailable
                   /\ getLocationNameThrows(lastOp'.what, lastOp'.detail.second)]_vars

\* ------------------------------------------------------------------ C15
\* C15: when geocodeLocation settles for an accepted prompt answer, the fallback
\* provider was consulted exactly when the primary gave no coordinate; a coordinate
\* found by either provider is stored under the current day's location key, becomes
\* currentCoordinates and a weather request for it is issued, without an alert; when
\* neither provider found one the result is null, an alert is shown, and
\* currentCoordinates, storage and the weather panel are unchanged.
C15_GeocodeFallback ==
    [][GeocodeResponseStep =>
          LET d == lastOp'.detail
              coordinates == lastOp'.what
              found == d.first = "found" \/ d.second = "found"
          IN  /\ d.consulted <=> d.first # "found"
              /\ pc' = pc
              /\ found =>
                    /\ coordinates # null
                    /\ currentCoordinates' = coordinates
                    /\ getItem(localStorage', locationKey(getCurrentDateKey(now)))
                           = JSONstringifyCoordinates(coordinates)
                    /\ coordinates \in weatherRequests'
                    /\ ~d.alert
              /\ ~found =>
                    /\ coordinates = null
                    /\ d.alert
                    /\ UNCHANGED <<currentCoordinates, localStorage, weatherRequests,
                                   weatherContent>>]_vars

C15_Witness ==
    /\ lastOp.op = "geocodeResponse"
    /\ lastOp.detail.first = "notOk"
    /\ lastOp.detail.second = "found"
    /\ currentCoordinates = "otherPlace"
    /\ getItem(localStorage, locationKey(0)) = JSONstringifyCoordinates("otherPlace")
    /\ "otherPlace" \in weatherRequests

\* ------------------------------------------------------------------ C16
\* C16: whenever the weather panel has been rendered, as a snapshot or as the
\* 'Weather unavailable' placeholder, a click on it opens the location prompt.
C16_PanelAlwaysClickable ==
    (pc = "ready" /\ weatherContent.kind \in {"info", "unavailable"})
        => WeatherClickable(weatherContent)

\* ------------------------------------------------------------------ C17
\* C17: a location prompt that is cancelled, or answered with the empty text or with
\* blanks only, issues no geocoding request and no weather request, raises no alert,
\* and leaves the panel, currentCoordinates and storage as they were.
C17_BlankAnswerIgnored ==
    [][(DialogStep("cancel") \/ DialogStep("empty") \/ DialogStep("spaces")) =>
          /\ ~lastOp'.detail.alert
          /\ UNCHANGED <<pc, geocodeRequests, weatherRequests, weatherContent,
                         currentCoordinates, localStorage, page>>]_vars

C17_Witness ==
    /\ lastOp.op = "showLocationDialog"
    /\ lastOp.what = "spaces"
    /\ currentCoordinates \in Places
    /\ geocodeRequests = 0

\* ------------------------------------------------------------------ C21
\* C21: a toggle that unchecks a task shows no celebration; a toggle that completes
\* one shows the tier of the percentage after the toggle: basic below 50, big from
\* 50 to below 80, mega from 80; and with the celebration the toggle leaves exactly
\* the toggled set in memory and in storage.
C21_CelebrationTier ==
    [][\A t \in ScheduleTasks : ToggleStep(t) =>
          LET completing == t \notin Range(completedTasks)
              c == Len(completedTasks')
              N == Cardinality(schedule.morning) + Cardinality(schedule.evening)
              tier == lastOp'.what
          IN  /\ ~completing => (tier = "" /\ lastOp'.detail.first = "")
              /\ completing =>
                    /\ tier \in {"basic", "big", "mega"}
                    /\ tier = "basic" <=> c * 100 < 50 * N
                    /\ tier = "big" <=> (c * 100 >= 50 * N /\ c * 100 < 80 * N)
                    /\ tier = "mega" <=> c * 100 >= 80 * N
              /\ Range(completedTasks') =
                    IF completing THEN Range(completedTasks) \cup {t}
                    ELSE Range(completedTasks) \ {t}
              /\ getItem(localStorage', storageKey) = JSONstringifyArray(completedTasks')
              /\ \A k \in StorageKeys \ {storageKey} :
                    getItem(localStorage', k) = getItem(localStorage, k)]_vars

C21_Witness ==
    /\ lastOp.op = "toggleTask"
    /\ lastOp.what = "big"
    /\ page.progress.totalTasks = 4
    /\ page.progress.completedCount = 3
    /\ getItem(localStorage, storageKey) = JSONstringifyArray(completedTasks)

\* ------------------------------------------------------ helper functions
\* The helpers of the tracker evaluated on their own: each step evaluates one of
\* them on arguments drawn from a bounded grid and records the call.
program == <<now, env, pc, memory, localStorage, timers, page, weather, lastOp, history,
             beforeReload>>

Evaluate(fn, args, result) ==
    /\ call' = [fn |-> fn, args |-> args, result |-> result]
    /\ UNCHANGED program

\* no helper is being evaluated
Idle == call = NoCall

\* the call returns
Return ==
    /\ call # NoCall
    /\ call' = NoCall
    /\ UNCHANGED program

HelperInit ==
    /\ Unloaded
    /\ tz = 0
    /\ scheduleSource = ScheduleDocument
    /\ localStorage = [k \in StorageKeys |-> IF k = ForeignKey THEN ForeignValue ELSE NoRecord]

\* celebrateTaskCompletion for every number of completed ids after the toggle and
\* every number of tasks
EvaluateCelebration ==
    /\ Idle
    /\ \E completedCount \in 1..MaxCount, totalTasks \in 0..MaxCount :
           Evaluate("celebrateTaskCompletion", <<completedCount, totalTasks>>,
                    celebrateTaskCompletion(completedCount, totalTasks))

\* ------------------------------------------------------------------ C22
\* C22: celebrateTaskCompletion shows a milestone message exactly when the
\* percentage after the toggle is 50, 80 or 100 (great, amazing, perfect) and at no
\* other value, one message at most, and next to it the tier animation.
C22_MilestoneExactly ==
    call.fn = "celebrateTaskCompletion" =>
        LET c == call.args[1]
            N == call.args[2]
            m == call.result.milestone
        IN  /\ m = "great" <=> (N > 0 /\ c * 100 = 50 * N)
            /\ m = "amazing" <=> (N > 0 /\ c * 100 = 80 * N)
            /\ m = "perfect" <=> (N > 0 /\ c * 100 = 100 * N)
            /\ m \in {"", "great", "amazing", "perfect"}
            /\ call.result.tier \in {"basic", "big", "mega"}

C22_Witness ==
    /\ call.fn = "celebrateTaskCompletion"
    /\ call.args = <<80, 100>>
    /\ call.result = [tier |-> "mega", milestone |-> "amazing"]

\* ------------------------------------------------------- the daily quote
\* quotes.length
QuoteCount == 7
\* the largest 32-bit signed integer, and half a word
Max32 == 2147483647
Min32 == -Max32 - 1
Half == 65536

\* A 32-bit word is kept as <<high half, low half>>, so that no intermediate value
\* leaves the integers of the checker.
Word(hi, lo) == <<(hi + (lo \div Half)) % Half, lo % Half>>
\* hash << 5
ShiftLeft5(w) == Word(w[1] * 32, w[2] * 32)
\* a - b and w + char, wrapped by `hash & hash`
Subtract(a, b) == Word(a[1] - b[1], a[2] - b[2])
AddChar(w, char) == Word(w[1], w[2] + char)
\* the word read as a signed integer
ToInt32(w) == IF w[1] >= Half \div 2 THEN (w[1] - Half) * Half + w[2] ELSE w[1] * Half + w[2]

RECURSIVE HashFrom(_, _)
HashFrom(hash, str) ==
    IF str = <<>> THEN hash
    ELSE HashFrom(AddChar(Subtract(ShiftLeft5(hash), hash), Head(str)), Tail(str))

\* hashCode(str), str given by its char codes
hashCode(str) == ToInt32(HashFrom(<<0, 0>>, str))

\* the % of JavaScript: the remainder has the sign of the dividend
JSRemainder(a, n) ==
    LET r == a % n
    IN  IF a >= 0 \/ r = 0 THEN r ELSE r - n

MathAbs_None(x) == x
MathAbs(x) == IF x < 0 THEN -x ELSE x

\* hashCode(dateKey) % quotes.length, then quotes[Math.abs(quoteIndex)]
quoteIndex(hash) == MathAbs(JSRemainder(hash, QuoteCount))

\* toISOString().split('T')[0] as char codes: YYYY-MM-DD
Digit(n) == 48 + n
TwoDigits(n) == <<Digit(n \div 10), Digit(n % 10)>>
DateKeyText(y, m, d) ==
    TwoDigits(y \div 100) \o TwoDigits(y % 100) \o <<45>> \o TwoDigits(m) \o <<45>>
        \o TwoDigits(d)
DayKeys == {DateKeyText(y, m, d) : y \in 2024..(2023 + MaxYears), m \in 1..12, d \in 1..28}

HashSamples ==
    (-HashBound..HashBound) \cup {Min32 + k : k \in 0..HashBound}
        \cup {Max32 - k : k \in 0..HashBound}

\* fetchDailyQuote on a day key
EvaluateDailyQuote ==
    /\ Idle
    /\ \E dateKey \in DayKeys :
           Evaluate("fetchDailyQuote", dateKey,
                    [hash |-> hashCode(dateKey), index |-> quoteIndex(hashCode(dateKey))])

\* the index computation of fetchDailyQuote on a given hash
EvaluateQuoteIndex ==
    /\ Idle
    /\ \E hash \in HashSamples :
           Evaluate("quoteIndex", <<hash>>, [hash |-> hash, index |-> quoteIndex(hash)])

\* ------------------------------------------------------------------ C23
\* the recurrence hash = hash * 31 + charCode, wrapped to 32 bits at each step
RECURSIVE RecurrenceFrom(_, _)
RecurrenceFrom(w, str) ==
    IF str = <<>> THEN w
    ELSE RecurrenceFrom(Word(w[1] * 31, w[2] * 31 + Head(str)), Tail(str))

\* index = abs(hash) mod 7, stated without forming abs(-2^31)
IsAbsMod(index, hash, n) ==
    /\ index \in 0..(n - 1)
    /\ IF hash >= 0 THEN (hash - index) % n = 0 ELSE (hash + index) % n = 0

\* C23: the hash of a day key is the signed 32-bit result of the recurrence
\* hash * 31 + charCode, and the quote index the code computes from a hash (% 7,
\* then the absolute value) is abs(hash) mod 7 and lies in 0..6, for negative hashes
\* and -2^31 as well.
C23_QuoteIndex ==
    /\ call.fn = "fetchDailyQuote" =>
          /\ call.result.hash = ToInt32(RecurrenceFrom(<<0, 0>>, call.args))
          /\ call.result.hash \in Min32..Max32
          /\ IsAbsMod(call.result.index, call.result.hash, 7)
    /\ call.fn = "quoteIndex" => IsAbsMod(call.result.index, call.result.hash, 7)

C23_Witness ==
    /\ call.fn = "quoteIndex"
    /\ call.result.hash = Min32
    /\ call.result.index = 2

\* ------------------------------------------------------ the weather helpers
\* A JavaScript number: an integer, or NaN (what Math.round gives for a missing field)
Num(v) == [nan |-> FALSE, v |-> v]
NaN == [nan |-> TRUE, v |-> 0]
Degrees == {Num(v) : v \in (-5)..MaxDegrees}

\* a position in percent: NaN, or the exact fraction num / den
Position(num, den) == [nan |-> FALSE, num |-> num, den |-> den]
NaNPosition == [nan |-> TRUE, num |-> 0, den |-> 1]

\* Math.max(5, Math.min(95, position)) for a position that is a number
Clamp(num, den) ==
    IF num > 95 * den THEN Position(95, 1)
    ELSE IF num < 5 * den THEN Position(5, 1)
    ELSE Position(num, den)

\* calculateTempPosition: a comparison with NaN is false, and arithmetic, Math.min
\* and Math.max on NaN give NaN
calculateTempPosition(current, low, high) ==
    IF ~high.nan /\ ~low.nan /\ high.v <= low.v THEN Position(50, 1)
    ELSE IF current.nan \/ low.nan \/ high.nan THEN NaNPosition
    ELSE Clamp((current.v - low.v) * 100, high.v - low.v)

EvaluateTempPosition ==
    /\ Idle
    /\ \E current \in Degrees \cup {NaN}, low \in Degrees \cup {NaN}, high \in Degrees \cup {NaN} :
           Evaluate("calculateTempPosition", <<current, low, high>>,
                    calculateTempPosition(current, low, high))

\* ------------------------------------------------------------------ C24
\* C24: calculateTempPosition(current, low, high) is 50 when high <= low, otherwise
\* (current - low) / (high - low) * 100 clamped to 5..95; for every input the result
\* is a number within 5..95.
C24_TempPosition ==
    call.fn = "calculateTempPosition" =>
        LET current == call.args[1]
            low == call.args[2]
            high == call.args[3]
            r == call.result
        IN  /\ ~r.nan
            /\ r.num >= 5 * r.den
            /\ r.num <= 95 * r.den
            /\ (~current.nan /\ ~low.nan /\ ~high.nan) =>
                  LET p == (current.v - low.v) * 100
                      range == high.v - low.v
                  IN  /\ high.v <= low.v => r.num = 50 * r.den
                      /\ (high.v > low.v /\ p < 5 * range) => r.num = 5 * r.den
                      /\ (high.v > low.v /\ p > 95 * range) => r.num = 95 * r.den
                      /\ (high.v > low.v /\ p >= 5 * range /\ p <= 95 * range)
                            => r.num * range = p * r.den

getWeatherCondition_Listed(code) ==
    IF code = 0 \/ code = 1 THEN "clear"
    ELSE IF code = 2 \/ code = 3 THEN "clouds"
    ELSE IF code \in {51, 53, 55, 61, 63, 65} THEN "rain"
    ELSE IF code \in {71, 73, 75} THEN "snow"
    ELSE IF code = 95 THEN "thunderstorm"
    ELSE "clear"
\* getWeatherCondition
getWeatherCondition(code) ==
    IF code = 0 \/ code = 1 THEN "clear"
    ELSE IF code = 2 \/ code = 3 THEN "clouds"
    ELSE IF code >= 51 /\ code <= 65 THEN "rain"
    ELSE IF code >= 71 /\ code <= 75 THEN "snow"
    ELSE IF code = 95 THEN "thunderstorm"
    ELSE "clear"

\* the codes of the forecast service, and one far outside them
WeatherCodes == 0..MaxWeatherCode \cup {999}

EvaluateWeatherCondition ==
    /\ Idle
    /\ \E code \in WeatherCodes :
           Evaluate("getWeatherCondition", <<code>>, getWeatherCondition(code))

\* ------------------------------------------------------------------ C25
\* C25: getWeatherCondition gives every code exactly one of the five categories:
\* clouds for 2 and 3, rain for 51..65, snow for 71..75, thunderstorm for 95, and
\* clear for 0, 1 and every other code.
C25_WeatherCondition ==
    call.fn = "getWeatherCondition" =>
        LET code == call.args[1]
            r == call.result
        IN  /\ r \in {"clear", "clouds", "rain", "snow", "thunderstorm"}
            /\ r = "clouds" <=> code \in {2, 3}
            /\ r = "rain" <=> code \in 51..65
            /\ r = "snow" <=> code \in 71..75
            /\ r = "thunderstorm" <=> code = 95
            /\ r = "clear" <=> code \notin ({2, 3, 95} \cup (51..65) \cup (71..75))

C25_Witness ==
    /\ call.fn = "getWeatherCondition"
    /\ call.args = <<52>>
    /\ call.result = "rain"

\* Math.round of the fraction num / den (den > 0): the nearest integer, halves up
MathRound(num, den) == (2 * num + den) \div (2 * den)

\* a temperature of the forecast service, in tenths of a degree Celsius
Tenths == (-50)..(MaxDegrees * 10)

\* tempC = Math.round(current.temperature_2m), and likewise highC and lowC
roundedCelsius(tenths) == MathRound(tenths, 10)
\* tempF = Math.round((tempC * 9/5) + 32), and likewise highF and lowF
fahrenheit(celsius) == MathRound(celsius * 9 + 160, 5)

\* the Celsius/Fahrenheit pair of one field of the live snapshot
EvaluateFahrenheit ==
    /\ Idle
    /\ \E tenths \in Tenths :
           Evaluate("fahrenheit", <<tenths>>,
                    [celsius |-> roundedCelsius(tenths),
                     fahrenheit |-> fahrenheit(roundedCelsius(tenths))])

\* ------------------------------------------------------------------ C26
\* C26: the Fahrenheit value of a field of the live snapshot is round(C * 9/5 + 32)
\* of the Celsius value the service delivered (in tenths: (9 * tenths + 1600) / 50),
\* not of the rounded Celsius value.
C26_FahrenheitFromService ==
    call.fn = "fahrenheit" =>
        call.result.fahrenheit = MathRound(9 * call.args[1] + 1600, 50)

\* Math.random() is k / RandomGrid for a k in Randoms: a value in [0, 1)
Randoms == 0..(RandomGrid - 1)

\* tempC = Math.round(18 + Math.random() * 15)
mockTemperature(k) == MathRound(18 * RandomGrid + 15 * k, RandomGrid)
mockOffset_FromZero(k) == MathRound(5 * k, RandomGrid)
\* Math.round(Math.random() * 5 + 2)
mockOffset(k) == MathRound(5 * k + 2 * RandomGrid, RandomGrid)

\* getMockWeatherData, and the gauge position loadWeather computes for it
getMockWeatherData(k1, k2, k3) ==
    LET tempC == mockTemperature(k1)
        highC == tempC + mockOffset(k2)
        lowC == tempC - mockOffset(k3)
    IN  [temperature |-> tempC, high |-> highC, low |-> lowC,
         position |-> calculateTempPosition(Num(tempC), Num(lowC), Num(highC))]

EvaluateMockWeather ==
    /\ Idle
    /\ \E k1 \in Randoms, k2 \in Randoms, k3 \in Randoms :
           Evaluate("getMockWeatherData", <<k1, k2, k3>>, getMockWeatherData(k1, k2, k3))

\* ------------------------------------------------------------------ C30
\* C30: a mock snapshot has a temperature within 18..33, a high 2..7 above it and a
\* low 2..7 below it, so low < temperature < high, and its gauge position is the
\* quotient itself, strictly between 5 and 95: neither the degenerate case nor a
\* clamped value.
C30_MockSnapshot ==
    call.fn = "getMockWeatherData" =>
        LET r == call.result
        IN  /\ r.temperature \in 18..33
            /\ r.high - r.temperature \in 2..7
            /\ r.temperature - r.low \in 2..7
            /\ r.low < r.temperature /\ r.temperature < r.high
            /\ ~r.position.nan
            /\ r.position.num * (r.high - r.low)
                   = (r.temperature - r.low) * 100 * r.position.den
            /\ r.position.num > 5 * r.position.den
            /\ r.position.num < 95 * r.position.den

C30_Witness ==
    /\ call.fn = "getMockWeatherData"
    /\ call.result.temperature = 33
    /\ call.result.high = 40
    /\ call.result.low = 31
    /\ call.result.position = Position(200, 9)

\* ------------------------------------------------------------ HelperSpec
HelperNext ==
    \/ EvaluateCelebration
    \/ EvaluateDailyQuote
    \/ EvaluateQuoteIndex
    \/ EvaluateTempPosition
    \/ EvaluateWeatherCondition
    \/ EvaluateFahrenheit
    \/ EvaluateMockWeather
    \/ Return

HelperSpec == HelperInit /\ [][HelperNext]_vars

\* ------------------------------------------------------------------ C27
\* C27: when the text stored under the current day's location key cannot be parsed,
\* or parses to something that is no coordinate (null), the constructor completes
\* and the session starts with the default coordinate.
C27_MalformedLocationDefaults ==
    [][(/\ ConstructorStep
        /\ getItem(localStorage, locationKey(getCurrentDateKey(now))) \in {Corrupt, NullText})
       => /\ pc' = "loadSchedule"
          /\ currentCoordinates' = defaultCoordinates]_vars

\* ------------------------------------------------------------------ C28
\* C28: when a page that was reloaded initialises under the day key of the session
\* the reload ended, loadCompletedTasks restores the completion set that session
\* had in memory just before the reload.
C28_RoundTrip ==
    [][(InitStep /\ beforeReload.valid /\ beforeReload.key = storageKey)
       => completedTasks' = beforeReload.set]_vars

C28_Witness ==
    /\ pc = "ready"
    /\ lastOp.op = "init"
    /\ completedTasks = <<2, 1>>
    /\ getItem(localStorage, storageKey) = JSONstringifyArray(<<2, 1>>)

\* ------------------------------------------------------------------ C29
\* C29: every storage write of a session goes to the day fixed at its construction:
\* a coordinate stored after a location change lies under the location key of the
\* session's day, and nothing else in storage changes, also after the calendar day
\* has changed and before the rollover reset has fired.
C29_OneDayKeyPerSession ==
    [][(GeocodeResponseStep /\ lastOp'.what # null)
       => /\ getItem(localStorage', locationKey(sessionDay))
                 = JSONstringifyCoordinates(lastOp'.what)
          /\ \A k \in StorageKeys \ {locationKey(sessionDay)} :
                 getItem(localStorage', k) = getItem(localStorage, k)]_vars

====
